---- MODULE Spec2Model ----
(***************************************************************************)
(* Model of the OpenXAI MCP server (index.js, class OpenXAIServer): the    *)
(* tool-listing request handler, the tool-invocation request handler (the  *)
(* router with its switch and its catch) and the eleven tool handlers.     *)
(*                                                                         *)
(* JavaScript values are tagged records, so that property lookup through   *)
(* Object.prototype, truthiness, string conversion in template literals    *)
(* and thrown exceptions are computed the way the engine computes them.    *)
(***************************************************************************)
EXTENDS Integers, Sequences, FiniteSets, TLC

\* clock      : the wall clock, as new Date() reads it
\* pc         : "idle", or "handling" while a request is being answered
\* request    : the request delivered last
\* response   : what its handler returned (or threw)
\* dispatched : the case of the router's switch that ran for it
\* caught     : whether the router's catch block ran for it
\* earlier    : a client's note of one answered request and its result, and
\*              whether another request was delivered since
VARIABLES clock, pc, request, response, dispatched, caught, earlier

\* The state of the server.
serverVars == <<clock, pc, request, response, dispatched, caught, earlier>>

\* files : the JSON files of the working directory the OpenXAI Studio
\*         scripts read and write, each with the state of its content
\* run   : the run of a script (connect-wallet.js, deploy-openxai-studio.js):
\*         the script, its position, what it answered and wrote
VARIABLES files, run

studioVars == <<files, run>>

\* attempts : the local variable attempts of XnodeDeployer.waitForDeployment
\* polls    : the number of status polls (axios.get) it has issued
\* wait     : its position, the status and the endpoint of the poll made
\*            last, what it returned or threw, and whether a poll has
\*            reported the status failed
VARIABLES attempts, polls, wait

xnodeVars == <<attempts, polls, wait>>

\* wizard : the run of the deployment wizard (deploy-wizard.js): its
\*          position, the answers collected, whether config/deployment.json
\*          was written, the deploy command run and the error thrown
VARIABLE wizard

wizardVars == <<wizard>>

vars == <<serverVars, studioVars, xnodeVars, wizardVars>>

(***************************************************************************)
(* Bounds of the model.                                                    *)
(***************************************************************************)
\* Number of probe strings (ProbeStrings) offered as argument values next to
\* the identifiers the code knows.
MaxProbe == 3

\* The wall clock read by new Date() takes the values 0..MaxClock.
MaxClock == 1

(***************************************************************************)
(* JavaScript values.                                                      *)
(***************************************************************************)
Undefined == [t |-> "undefined"]

Null == [t |-> "null"]

\* A string: its characters, and the data serialised into it by
\* JSON.stringify (each occurrence is the placeholder <json> in s).
Lit(s) == [t |-> "string", s |-> s, json |-> <<>>]

Bool(b) == [t |-> "boolean", b |-> b]

\* A built-in function object, such as Object or Object.prototype.toString.
Fn(name) == [t |-> "function", name |-> name]

\* The object Object.prototype itself (the value of obj['__proto__']).
ObjectPrototype == [t |-> "prototype"]

\* A plain object with own enumerable properties p (a function from keys).
Obj(p) == [t |-> "object", p |-> p]

\* An array of data items (records or strings).
Arr(items) == [t |-> "array", items |-> items]

EmptyProps == [k \in {} |-> Undefined]

\* The properties every plain object inherits from Object.prototype.
ObjectPrototypeProps ==
    {"constructor", "toString", "valueOf", "hasOwnProperty", "isPrototypeOf",
     "propertyIsEnumerable", "toLocaleString", "__proto__"}

InheritedValue(key) ==
    IF key = "__proto__" THEN ObjectPrototype
    ELSE IF key = "constructor" THEN Fn("Object")
    ELSE Fn(key)

\* if (v), !v, v || w
Truthy(v) ==
    CASE v.t = "undefined" -> FALSE
      [] v.t = "null"      -> FALSE
      [] v.t = "boolean"   -> v.b
      [] v.t = "string"    -> v.s # ""
      [] OTHER             -> TRUE

\* a ?? b: the right operand only for undefined and null.
Or_Nullish(a, b) == IF a.t \in {"undefined", "null"} THEN b ELSE a

\* a || b
Or(a, b) == IF Truthy(a) THEN a ELSE b

\* `${v}` and string concatenation with +
JsToString(v) ==
    CASE v.t = "undefined" -> Lit("undefined")
      [] v.t = "null"      -> Lit("null")
      [] v.t = "boolean"   -> Lit(IF v.b THEN "true" ELSE "false")
      [] v.t = "string"    -> v
      [] v.t = "function"  -> Lit("function " \o v.name \o "() { [native code] }")
      [] v.t = "array"     -> Lit("<array>")
      [] OTHER             -> Lit("[object Object]")

Cat(a, b) ==
    [t |-> "string", s |-> a.s \o b.s, json |-> a.json \o b.json]

\* A template literal: the concatenation of the string conversions of its
\* parts (literal sections are Lit values).
RECURSIVE Template(_)
Template(parts) ==
    IF parts = <<>> THEN Lit("")
    ELSE Cat(JsToString(Head(parts)), Template(Tail(parts)))

\* JSON.stringify(v, null, 2): undefined for a function, "{}" for an object
\* without own enumerable properties, the serialised data otherwise.
JSONStringify(v) ==
    CASE v.t = "function"  -> Undefined
      [] v.t = "undefined" -> Undefined
      [] v.t = "prototype" -> Lit("{}")
      [] OTHER             -> [t |-> "string", s |-> "<json>", json |-> <<v>>]

(***************************************************************************)
(* Completions: a call either returns a value or throws an Error.          *)
(***************************************************************************)
Return(v) == [threw |-> FALSE, value |-> v]

Throw(message) == [threw |-> TRUE, message |-> message]

\* table[key] on an object literal whose own properties are the function
\* table: own property, else the property inherited from Object.prototype,
\* else undefined.  The key is converted to a string first.
Lookup(table, key) ==
    LET k == JsToString(key).s IN
    IF k \in DOMAIN table THEN table[k]
    ELSE IF k \in ObjectPrototypeProps THEN InheritedValue(k)
    ELSE Undefined

\* base.key as the engine evaluates it: a TypeError on undefined and null
\* (with the message V8 gives it), the own or inherited property of an
\* object, undefined on a primitive.
GetProp(base, key) ==
    CASE base.t = "undefined" ->
           Throw(Lit("Cannot read properties of undefined (reading '" \o key \o "')"))
      [] base.t = "null" ->
           Throw(Lit("Cannot read properties of null (reading '" \o key \o "')"))
      [] base.t = "object" -> Return(Lookup(base.p, Lit(key)))
      [] OTHER -> Return(Undefined)

\* { content: [ { type: 'text', text } ] }
TextResult(text) == [content |-> <<[type |-> "text", text |-> text]>>]

(***************************************************************************)
(* The tool-listing request handler.                                       *)
(***************************************************************************)
\* One property of an inputSchema: its type, its enum (empty when the schema
\* declares none) and its default (Undefined when the schema declares none).
Prop(type, enum, default) == [type |-> type, enum |-> enum, default |-> default]

\* One entry of the tools array: name, inputSchema.properties (keys in
\* declaration order with their schemas) and inputSchema.required.
Tool(name, keys, properties, required) ==
    [name |-> name, keys |-> keys, properties |-> properties, required |-> required]

ModelInfoProp == Prop("object", <<>>, Undefined)

\* The tools array returned for ListToolsRequestSchema.
Tools ==
    << Tool("list_datasets", <<"category">>,
            [category |-> Prop("string",
                <<"synthetic", "real-world", "tabular", "image", "text", "all">>, Undefined)],
            <<>>),
       Tool("load_dataset", <<"dataset_name", "download">>,
            [dataset_name |-> Prop("string", <<>>, Undefined),
             download     |-> Prop("boolean", <<>>, Bool(TRUE))],
            <<"dataset_name">>),
       Tool("list_models", <<"dataset_name", "model_type">>,
            [dataset_name |-> Prop("string", <<>>, Undefined),
             model_type   |-> Prop("string",
                <<"ann", "lr", "rf", "svm", "xgb", "all">>, Undefined)],
            <<>>),
       Tool("load_model", <<"data_name", "ml_model", "pretrained">>,
            [data_name  |-> Prop("string", <<>>, Undefined),
             ml_model   |-> Prop("string", <<"ann", "lr", "rf", "svm", "xgb">>, Undefined),
             pretrained |-> Prop("boolean", <<>>, Bool(TRUE))],
            <<"data_name", "ml_model">>),
       Tool("list_explainers", <<"method_type">>,
            [method_type |-> Prop("string",
                <<"lime", "shap", "integrated_gradients", "gradcam", "all">>, Undefined)],
            <<>>),
       Tool("generate_explanation", <<"method", "data_sample", "model_info">>,
            [method      |-> Prop("string",
                <<"lime", "shap", "integrated_gradients", "gradcam", "guided_backprop">>,
                Undefined),
             data_sample |-> Prop("string", <<>>, Undefined),
             model_info  |-> ModelInfoProp],
            <<"method", "data_sample", "model_info">>),
       Tool("list_metrics", <<"metric_type">>,
            [metric_type |-> Prop("string",
                <<"faithfulness", "stability", "fairness", "all">>, Undefined)],
            <<>>),
       Tool("evaluate_explanation", <<"metric", "explanation", "model_info">>,
            [metric      |-> Prop("string",
                <<"PGI", "PGU", "RIS", "RRS", "ROS", "FA", "RA", "SA", "SRA", "RC", "PRA">>,
                Undefined),
             explanation |-> Prop("string", <<>>, Undefined),
             model_info  |-> ModelInfoProp],
            <<"metric", "explanation", "model_info">>),
       Tool("get_leaderboard", <<"dataset", "metric">>,
            [dataset |-> Prop("string", <<>>, Undefined),
             metric  |-> Prop("string", <<>>, Undefined)],
            <<>>),
       Tool("get_framework_info", <<"info_type">>,
            [info_type |-> Prop("string",
                <<"overview", "features", "paper", "installation", "quickstart">>,
                Undefined)],
            <<>>),
       Tool("get_deployment_guide", <<"deployment_type">>,
            [deployment_type |-> Prop("string",
                <<"quick_start", "detailed", "app_store", "troubleshooting">>, Undefined)],
            <<>>) >>

\* async () => ({ tools: [...] })
ListToolsHandler == Return([tools |-> Tools])

Range(seq) == {seq[i] : i \in DOMAIN seq}


(***************************************************************************)
(* listDatasets                                                            *)
(***************************************************************************)
\* Object.keys(datasets), in insertion order.
datasetsKeys == <<"synthetic", "real-world", "tabular", "image", "text">>

\* The object literal datasets of listDatasets: the entries of a category
\* are objects, those of tabular are the bare names.
datasets ==
    ("synthetic" :> Arr(<<
        Obj([name |-> "synthetic_classification",
         description |-> "Synthetic classification dataset with ground truth explanations",
         task |-> "classification",
         features |-> "Customizable number of features",
         samples |-> "Customizable number of samples"]),
        Obj([name |-> "synthetic_regression",
         description |-> "Synthetic regression dataset with ground truth explanations",
         task |-> "regression",
         features |-> "Customizable number of features",
         samples |-> "Customizable number of samples"]) >>))
 @@ ("real-world" :> Arr(<<
        Obj([name |-> "german",
         description |-> "German Credit dataset - Binary classification for credit approval",
         task |-> "classification", features |-> 20, samples |-> 1000, classes |-> 2]),
        Obj([name |-> "compas",
         description |-> "COMPAS Recidivism dataset - Binary classification for recidivism prediction",
         task |-> "classification", features |-> 11, samples |-> 6172, classes |-> 2]),
        Obj([name |-> "adult",
         description |-> "Adult Income dataset - Binary classification for income prediction",
         task |-> "classification", features |-> 14, samples |-> 48842, classes |-> 2]),
        Obj([name |-> "folktable",
         description |-> "ACS Folktables dataset - Various prediction tasks",
         task |-> "classification", features |-> "Variable", samples |-> "Variable",
         classes |-> "Variable"]) >>))
 @@ ("tabular" :> Arr(<<Lit("german"), Lit("compas"), Lit("adult"), Lit("folktable"),
                        Lit("synthetic_classification"), Lit("synthetic_regression")>>))
 @@ ("image" :> Arr(<<
        Obj([name |-> "mnist", description |-> "MNIST handwritten digits dataset",
         task |-> "classification", features |-> "28x28 grayscale images",
         samples |-> 70000, classes |-> 10]),
        Obj([name |-> "cifar10", description |-> "CIFAR-10 object recognition dataset",
         task |-> "classification", features |-> "32x32 color images",
         samples |-> 60000, classes |-> 10]) >>))
 @@ ("text" :> Arr(<<
        Obj([name |-> "imdb", description |-> "IMDB Movie Review sentiment classification",
         task |-> "classification", features |-> "Text sequences",
         samples |-> 50000, classes |-> 2]) >>))

\* Object.values(table).flat() over the keys in insertion order.
RECURSIVE FlatValues(_, _)
FlatValues(table, keys) ==
    IF keys = <<>> THEN <<>>
    ELSE table[Head(keys)].items \o FlatValues(table, Tail(keys))

\* listDatasets without its filter: every category lists the whole catalog.
listDatasetsResult_Unfiltered(category) ==
    Arr(FlatValues(datasets, datasetsKeys))

\* The value of `result` at the return of listDatasets.
listDatasetsResult(category) ==
    IF category = Lit("all")
    THEN Arr(FlatValues(datasets, datasetsKeys))
    ELSE Or(Lookup(datasets, category), Arr(<<>>))

listDatasets(category) ==
    Return(TextResult(
        Cat(Template(<<Lit("Available OpenXAI datasets ("), category, Lit("):\n\n")>>),
            JsToString(JSONStringify(listDatasetsResult(category))))))

(***************************************************************************)
(* loadDataset                                                             *)
(***************************************************************************)
datasetInfoKeys == <<"german", "compas", "adult">>

\* datasetInfo with the sample count of adult as another release of the
\* dataset gives it.
datasetInfo_Stale ==
    [german |-> Obj([description |-> Lit("German Credit dataset loaded successfully"),
                     features |-> Lit("20"), samples |-> Lit("1000"),
                     classes |-> Lit("2"), task |-> Lit("classification")]),
     compas |-> Obj([description |-> Lit("COMPAS Recidivism dataset loaded successfully"),
                     features |-> Lit("11"), samples |-> Lit("6172"),
                     classes |-> Lit("2"), task |-> Lit("classification")]),
     adult  |-> Obj([description |-> Lit("Adult Income dataset loaded successfully"),
                     features |-> Lit("14"), samples |-> Lit("32561"),
                     classes |-> Lit("2"), task |-> Lit("classification")])]

\* The object literal datasetInfo of loadDataset.  features, samples and
\* classes are numbers in the source; they are kept as the strings their
\* template conversion yields.
datasetInfo ==
    [german |-> Obj([description |-> Lit("German Credit dataset loaded successfully"),
                     features |-> Lit("20"), samples |-> Lit("1000"),
                     classes |-> Lit("2"), task |-> Lit("classification")]),
     compas |-> Obj([description |-> Lit("COMPAS Recidivism dataset loaded successfully"),
                     features |-> Lit("11"), samples |-> Lit("6172"),
                     classes |-> Lit("2"), task |-> Lit("classification")]),
     adult  |-> Obj([description |-> Lit("Adult Income dataset loaded successfully"),
                     features |-> Lit("14"), samples |-> Lit("48842"),
                     classes |-> Lit("2"), task |-> Lit("classification")])]

\* The markdown code fence (three backquotes), written with tildes because a
\* backquote cannot occur in a string of this module.
Fence == Lit("~~~")

\* keys.join(', ')
RECURSIVE Join(_)
Join(keys) ==
    IF keys = <<>> THEN ""
    ELSE IF Len(keys) = 1 THEN Head(keys)
    ELSE Head(keys) \o ", " \o Join(Tail(keys))

\* info.key where info is the truthy value found in a table: an own
\* property of an object, undefined on a function or on Object.prototype
\* (none of the keys read is a property of those).
Field(info, key) ==
    IF info.t = "object" /\ key \in DOMAIN info.p THEN info.p[key] ELSE Undefined

\* A parameter declared without its default value.
Default_Ignored(v, d) == v

\* A default parameter value: used when the argument is undefined.
Default(v, d) == IF v = Undefined THEN d ELSE v

loadDataset(datasetName, downloadArg) ==
    LET download == Default(downloadArg, Bool(TRUE))
        info     == Lookup(datasetInfo, datasetName)
        codeExample == Template(<<
            Lit("\n# Example usage with OpenXAI:\nfrom openxai.dataloader import ReturnLoaders\n\n# Load the dataset\ntrainloader, testloader = ReturnLoaders(data_name='"),
            datasetName, Lit("', download="), download,
            Lit(")\n\n# Get a sample from the test dataset\ninputs, labels = next(iter(testloader))\nprint(f\"Input shape: {inputs.shape}\")\nprint(f\"Labels shape: {labels.shape}\")\n")>>)
    IN IF ~Truthy(info)
       THEN Throw(Template(<<Lit("Dataset '"), datasetName,
                             Lit("' not found. Available datasets: "),
                             Lit(Join(datasetInfoKeys))>>))
       ELSE Return(TextResult(Template(<<
                Field(info, "description"), Lit("\n\n"),
                Lit("Dataset: "), datasetName, Lit("\n"),
                Lit("Features: "), Field(info, "features"), Lit("\n"),
                Lit("Samples: "), Field(info, "samples"), Lit("\n"),
                Lit("Classes: "), Field(info, "classes"), Lit("\n"),
                Lit("Task: "), Field(info, "task"), Lit("\n\n"),
                Lit("Python code example:\n"), Fence, Lit("python"), codeExample, Fence>>)))


(***************************************************************************)
(* listModels                                                              *)
(***************************************************************************)
modelsKeys == <<"ann", "lr", "rf", "svm", "xgb">>

\* The object literal models of listModels.
models ==
    [ann |-> [name |-> "Artificial Neural Network",
              description |-> "Multi-layer perceptron with configurable architecture",
              supported_datasets |-> <<"german", "compas", "adult", "folktable", "mnist", "cifar10">>,
              task_types |-> <<"classification", "regression">>],
     lr  |-> [name |-> "Logistic Regression",
              description |-> "Linear model for classification with ground truth explanations",
              supported_datasets |-> <<"german", "compas", "adult", "folktable">>,
              task_types |-> <<"classification">>],
     rf  |-> [name |-> "Random Forest",
              description |-> "Ensemble of decision trees",
              supported_datasets |-> <<"german", "compas", "adult", "folktable">>,
              task_types |-> <<"classification", "regression">>],
     svm |-> [name |-> "Support Vector Machine",
              description |-> "Kernel-based classification model",
              supported_datasets |-> <<"german", "compas", "adult", "folktable">>,
              task_types |-> <<"classification">>],
     xgb |-> [name |-> "XGBoost",
              description |-> "Gradient boosting framework",
              supported_datasets |-> <<"german", "compas", "adult", "folktable">>,
              task_types |-> <<"classification", "regression">>]]

\* A table of data records as the engine sees it: each value a plain object.
AsObjects(table) == [k \in DOMAIN table |-> Obj(table[k])]

\* ...v in an object literal: the own enumerable properties of v (a built-in
\* function and Object.prototype have none).
Spread(v) == IF v.t = "object" THEN v.p ELSE EmptyProps

\* Object.entries(table).map(([key, value]) => ({ [label]: key, ...value }))
RECURSIVE Entries(_, _, _)
Entries(table, keys, label) ==
    IF keys = <<>> THEN <<>>
    ELSE <<(label :> Head(keys)) @@ table[Head(keys)]>>
         \o Entries(table, Tail(keys), label)

\* table[key] ? [{ [label]: key, ...table[key] }] : []
Single(table, key, label) ==
    LET v == Lookup(AsObjects(table), key) IN
    IF Truthy(v) THEN <<(label :> JsToString(key).s) @@ Spread(v)>> ELSE <<>>

\* array.includes(v) for an array of strings.
Includes(array, v) == v.t = "string" /\ v.json = <<>> /\ v.s \in Range(array)

listModels(datasetName, modelType) ==
    LET selected == IF modelType = Lit("all")
                    THEN Entries(models, modelsKeys, "type")
                    ELSE Single(models, modelType, "type")
        filterThrows == \E i \in DOMAIN selected :
                            "supported_datasets" \notin DOMAIN selected[i]
        result == IF Truthy(datasetName)
                  THEN SelectSeq(selected,
                         LAMBDA model : Includes(model.supported_datasets, datasetName))
                  ELSE selected
        suffix == IF Truthy(datasetName)
                  THEN Template(<<Lit(" for dataset '"), datasetName, Lit("'")>>)
                  ELSE Lit("")
    IN IF Truthy(datasetName) /\ filterThrows
       THEN Throw(Lit("Cannot read properties of undefined (reading 'includes')"))
       ELSE Return(TextResult(
              Cat(Template(<<Lit("Available OpenXAI models"), suffix, Lit(":\n\n")>>),
                  JsToString(JSONStringify(Arr(result))))))

(***************************************************************************)
(* loadModel                                                               *)
(***************************************************************************)
modelInfoKeys == <<"ann", "lr", "rf", "svm", "xgb">>

\* The object literal modelInfo of loadModel.
modelInfo ==
    [ann |-> Lit("Artificial Neural Network"),
     lr  |-> Lit("Logistic Regression"),
     rf  |-> Lit("Random Forest"),
     svm |-> Lit("Support Vector Machine"),
     xgb |-> Lit("XGBoost")]

loadModel(dataName, mlModel, pretrainedArg) ==
    LET pretrained == Default(pretrainedArg, Bool(TRUE))
        modelName  == Lookup(modelInfo, mlModel)
        codeExample == Template(<<
            Lit("\n# Example usage with OpenXAI:\nfrom openxai import LoadModel\n\n# Load the pre-trained model\nmodel = LoadModel(data_name='"),
            dataName, Lit("', ml_model='"), mlModel, Lit("', pretrained="), pretrained,
            Lit(")\n\n# Use the model for predictions\n# predictions = model.predict(input_data)\n")>>)
    IN IF ~Truthy(modelName)
       THEN Throw(Template(<<Lit("Model type '"), mlModel,
                             Lit("' not supported. Available models: "),
                             Lit(Join(modelInfoKeys))>>))
       ELSE Return(TextResult(Template(<<
                Lit("Model loaded successfully!\n\n"),
                Lit("Dataset: "), dataName, Lit("\n"),
                Lit("Model type: "), modelName, Lit(" ("), mlModel, Lit(")\n"),
                Lit("Pretrained: "), pretrained, Lit("\n\n"),
                Lit("Python code example:\n"), Fence, Lit("python"), codeExample, Fence>>)))


(***************************************************************************)
(* listExplainers                                                          *)
(***************************************************************************)
explainersKeys == <<"lime", "shap", "integrated_gradients", "gradcam", "guided_backprop">>

\* The object literal explainers of listExplainers.
explainers ==
    [lime |-> [name |-> "LIME (Local Interpretable Model-agnostic Explanations)",
               description |-> "Local explanations by approximating the model locally with an interpretable model",
               supported_data_types |-> <<"tabular", "image", "text">>,
               explanation_type |-> "local", model_agnostic |-> TRUE],
     shap |-> [name |-> "SHAP (SHapley Additive exPlanations)",
               description |-> "Feature attribution based on cooperative game theory",
               supported_data_types |-> <<"tabular", "image", "text">>,
               explanation_type |-> "local", model_agnostic |-> TRUE],
     integrated_gradients |->
              [name |-> "Integrated Gradients",
               description |-> "Attribution method based on gradients integrated along a path",
               supported_data_types |-> <<"tabular", "image", "text">>,
               explanation_type |-> "local", model_agnostic |-> FALSE,
               requires |-> "PyTorch or TensorFlow model"],
     gradcam |-> [name |-> "Grad-CAM (Gradient-weighted Class Activation Mapping)",
               description |-> "Visual explanations for CNN models using gradients",
               supported_data_types |-> <<"image">>,
               explanation_type |-> "local", model_agnostic |-> FALSE,
               requires |-> "CNN model"],
     guided_backprop |->
              [name |-> "Guided Backpropagation",
               description |-> "Modified backpropagation for generating visual explanations",
               supported_data_types |-> <<"image">>,
               explanation_type |-> "local", model_agnostic |-> FALSE,
               requires |-> "Neural network model"]]

\* The value of `result` at the return of listExplainers.
listExplainersResult(methodType) ==
    IF methodType = Lit("all")
    THEN Entries(explainers, explainersKeys, "method")
    ELSE Single(explainers, methodType, "method")

listExplainers(methodType) ==
    Return(TextResult(
        Cat(Lit("Available OpenXAI explanation methods:\n\n"),
            JsToString(JSONStringify(Arr(listExplainersResult(methodType)))))))

(***************************************************************************)
(* generateExplanation                                                     *)
(***************************************************************************)
methods == <<"lime", "shap", "integrated_gradients", "gradcam", "guided_backprop">>

\* method.toUpperCase() for the strings that pass methods.includes.
toUpperCase ==
    [lime |-> "LIME", shap |-> "SHAP", integrated_gradients |-> "INTEGRATED_GRADIENTS",
     gradcam |-> "GRADCAM", guided_backprop |-> "GUIDED_BACKPROP"]

generateExplanation(method, dataSample, modelInfoArg) ==
    LET dataName == GetProp(modelInfoArg, "data_name")
        mlModel  == GetProp(modelInfoArg, "ml_model")
        codeExample == Template(<<
            Lit("\n# Example usage with OpenXAI:\nfrom openxai import Explainer\nfrom openxai import LoadModel\nfrom openxai.dataloader import ReturnLoaders\n\n# Load the model and data\nmodel = LoadModel(data_name='"),
            dataName.value, Lit("', ml_model='"), mlModel.value,
            Lit("', pretrained=True)\ntrainloader, testloader = ReturnLoaders(data_name='"),
            dataName.value,
            Lit("', download=True)\n\n# Initialize the explainer\nexplainer = Explainer(method='"),
            method,
            Lit("', model=model)\n\n# Generate explanations\ninputs, labels = next(iter(testloader))\nexplanations = explainer.get_explanations(inputs)\n\nprint(f\"Explanation shape: {explanations.shape}\")\nprint(f\"Explanation values: {explanations}\")\n")>>)
    IN IF ~Includes(methods, method)
       THEN Throw(Template(<<Lit("Method '"), method,
                             Lit("' not supported. Available methods: "),
                             Lit(Join(methods))>>))
       ELSE IF dataName.threw THEN dataName
       ELSE Return(TextResult(Template(<<
                Lit("Generated explanation using "), Lit(toUpperCase[method.s]), Lit("\n\n"),
                Lit("Method: "), method, Lit("\n"),
                Lit("Dataset: "), dataName.value, Lit("\n"),
                Lit("Model: "), mlModel.value, Lit("\n"),
                Lit("Data sample: "), dataSample, Lit("\n\n"),
                Lit("Python code example:\n"), Fence, Lit("python"), codeExample, Fence>>)))

(***************************************************************************)
(* listMetrics                                                             *)
(***************************************************************************)
metricsKeys == <<"faithfulness", "stability", "ground_truth">>

\* Object.keys of each category of metrics.
categoryMetricsKeys ==
    [faithfulness |-> <<"PGI", "PGU">>,
     stability    |-> <<"RIS", "RRS", "ROS">>,
     ground_truth |-> <<"FA", "RA", "SA", "SRA", "RC", "PRA">>]

Metric(name, description, higher) ==
    [name |-> name, description |-> description, higher_is_better |-> higher]

\* The object literal metrics of listMetrics.
metrics ==
    [faithfulness |->
        [PGI |-> Metric("Prediction Gap on Important feature perturbation",
                 "Measures the difference in prediction probability when perturbing important features", TRUE),
         PGU |-> Metric("Prediction Gap on Unimportant feature perturbation",
                 "Measures the difference in prediction probability when perturbing unimportant features", FALSE)],
     stability |->
        [RIS |-> Metric("Relative Input Stability",
                 "Measures maximum change in explanation relative to changes in inputs", FALSE),
         RRS |-> Metric("Relative Representation Stability",
                 "Measures maximum change in explanation relative to changes in internal representation", FALSE),
         ROS |-> Metric("Relative Output Stability",
                 "Measures maximum change in explanation relative to changes in output predictions", FALSE)],
     ground_truth |->
        [FA  |-> Metric("Feature Agreement",
                 "Fraction of top-K features common between explanation and ground truth", TRUE),
         RA  |-> Metric("Rank Agreement",
                 "Fraction of top-K features with same rank in explanation and ground truth", TRUE),
         SA  |-> Metric("Sign Agreement",
                 "Fraction of top-K features with same sign in explanation and ground truth", TRUE),
         SRA |-> Metric("Signed Rank Agreement",
                 "Fraction of top-K features with same sign and rank in explanation and ground truth", TRUE),
         RC  |-> Metric("Rank Correlation",
                 "Spearman rank correlation between explanation and ground truth rankings", TRUE),
         PRA |-> Metric("Pairwise Rank Agreement",
                 "Fraction of feature pairs with same relative ordering in explanation and ground truth", TRUE)]]

\* { category, metrics: Object.entries(categoryMetrics).map(...) } for an own
\* category of metrics.
CategoryEntry(category) ==
    [category |-> category,
     metrics  |-> Entries(metrics[category], categoryMetricsKeys[category], "metric")]

RECURSIVE CategoryEntries(_)
CategoryEntries(keys) ==
    IF keys = <<>> THEN <<>>
    ELSE <<CategoryEntry(Head(keys))>> \o CategoryEntries(Tail(keys))

\* The value of `result` at the return of listMetrics.
listMetricsResult(metricType) ==
    IF metricType = Lit("all")
    THEN CategoryEntries(metricsKeys)
    ELSE LET categoryMetrics == Lookup(AsObjects(metrics), metricType) IN
         IF ~Truthy(categoryMetrics) THEN <<>>
         ELSE IF categoryMetrics.t = "object"
              THEN <<CategoryEntry(JsToString(metricType).s)>>
              ELSE <<[category |-> JsToString(metricType).s, metrics |-> <<>>]>>

listMetrics(metricType) ==
    Return(TextResult(
        Cat(Lit("Available OpenXAI evaluation metrics:\n\n"),
            JsToString(JSONStringify(Arr(listMetricsResult(metricType)))))))

(***************************************************************************)
(* evaluateExplanation                                                     *)
(***************************************************************************)
\* validMetrics that also holds the lower-case spelling of PGI.
validMetrics_WithLowerCase ==
    <<"PGI", "PGU", "RIS", "RRS", "ROS", "FA", "RA", "SA", "SRA", "RC", "PRA", "pgi">>

validMetrics == <<"PGI", "PGU", "RIS", "RRS", "ROS", "FA", "RA", "SA", "SRA", "RC", "PRA">>

evaluateExplanation(metric, explanation, modelInfoArg) ==
    LET dataName == GetProp(modelInfoArg, "data_name")
        mlModel  == GetProp(modelInfoArg, "ml_model")
        codeExample == Template(<<
            Lit("\n# Example usage with OpenXAI:\nfrom openxai import Evaluator\nfrom openxai import LoadModel\nfrom openxai import Explainer\nfrom openxai.dataloader import ReturnLoaders\n\n# Load model and data\nmodel = LoadModel(data_name='"),
            dataName.value, Lit("', ml_model='"), mlModel.value,
            Lit("', pretrained=True)\ntrainloader, testloader = ReturnLoaders(data_name='"),
            dataName.value,
            Lit("', download=True)\n\n# Generate explanations\nexplainer = Explainer(method='lime', model=model)\ninputs, labels = next(iter(testloader))\nexplanations = explainer.get_explanations(inputs)\n\n# Evaluate explanations\nevaluator = Evaluator(model, metric='"),
            metric,
            Lit("')\nscore = evaluator.evaluate(\n    inputs=inputs,\n    labels=labels,\n    explanations=explanations\n)\n\nprint(f\""),
            metric, Lit(" score: {score}\")\n")>>)
    IN IF ~Includes(validMetrics, metric)
       THEN Throw(Template(<<Lit("Metric '"), metric,
                             Lit("' not supported. Available metrics: "),
                             Lit(Join(validMetrics))>>))
       ELSE IF dataName.threw THEN dataName
       ELSE Return(TextResult(Template(<<
                Lit("Evaluated explanation using "), metric, Lit(" metric\n\n"),
                Lit("Metric: "), metric, Lit("\n"),
                Lit("Dataset: "), dataName.value, Lit("\n"),
                Lit("Model: "), mlModel.value, Lit("\n"),
                Lit("Explanation: "), explanation, Lit("\n\n"),
                Lit("Python code example:\n"), Fence, Lit("python"), codeExample, Fence>>)))


(***************************************************************************)
(* getLeaderboard                                                          *)
(***************************************************************************)
\* new Date().toISOString() when the clock reads `now` seconds past the epoch.
toISOString(now) == Lit("1970-01-01T00:00:0" \o ToString(now) \o ".000Z")

\* The rankings of sampleLeaderboard; a score is kept as its decimal text.
rankings ==
    << [rank |-> 1, method |-> "SHAP", score |-> "0.87", model |-> "XGBoost"],
       [rank |-> 2, method |-> "LIME", score |-> "0.82", model |-> "XGBoost"],
       [rank |-> 3, method |-> "Integrated Gradients", score |-> "0.78", model |-> "Neural Network"],
       [rank |-> 4, method |-> "Gradient x Input", score |-> "0.75", model |-> "Neural Network"],
       [rank |-> 5, method |-> "Guided Backprop", score |-> "0.71", model |-> "Neural Network"] >>

getLeaderboard(dataset, metric, now) ==
    LET sampleLeaderboard ==
            [dataset  |-> Or(dataset, Lit("german")),
             metric   |-> Or(metric, Lit("PGI")),
             rankings |-> Arr(rankings),
             updated  |-> toISOString(now)]
    IN Return(TextResult(
         Cat(Cat(Template(<<Lit("OpenXAI Leaderboard\n\n"),
                            Lit("Dataset: "), sampleLeaderboard.dataset, Lit("\n"),
                            Lit("Metric: "), sampleLeaderboard.metric, Lit("\n"),
                            Lit("Last Updated: "), sampleLeaderboard.updated, Lit("\n\n"),
                            Lit("Rankings:\n")>>),
                 JsToString(JSONStringify(sampleLeaderboard.rankings))),
             Lit("\n\nNote: This is a sample leaderboard. Visit https://open-xai.github.io/ for actual leaderboard data."))))

(***************************************************************************)
(* getFrameworkInfo and getDeploymentGuide                                 *)
(***************************************************************************)
\* The object literal info of getFrameworkInfo; each text is cut to its
\* heading line.
info ==
    [overview     |-> Lit("OpenXAI Framework Overview"),
     features     |-> Lit("OpenXAI Key Features"),
     paper        |-> Lit("OpenXAI Research Paper"),
     installation |-> Lit("OpenXAI Installation Guide"),
     quickstart   |-> Lit("OpenXAI Quickstart Guide")]

getFrameworkInfo(infoType) ==
    Return(TextResult(Or(Lookup(info, infoType), info.overview)))

\* The object literal guides of getDeploymentGuide; each text is cut to its
\* heading line.
guides ==
    [quick_start     |-> Lit("OpenXAI Studio Quick Start Guide"),
     detailed        |-> Lit("OpenXAI Studio Detailed Deployment Guide"),
     app_store       |-> Lit("OpenXAI Studio App Store Guide"),
     troubleshooting |-> Lit("OpenXAI Studio Troubleshooting")]

getDeploymentGuide(deploymentType) ==
    Return(TextResult(Or(Lookup(guides, deploymentType), guides.quick_start)))

(***************************************************************************)
(* The tool-invocation request handler (the router).                       *)
(***************************************************************************)
\* The switch without its get_framework_info case.
SwitchCases_NoFrameworkInfo ==
    <<"list_datasets", "load_dataset", "list_models", "load_model", "list_explainers",
      "generate_explanation", "list_metrics", "evaluate_explanation", "get_leaderboard",
      "get_deployment_guide">>

\* The switch without the case of the tool listed last.
SwitchCases_NoDeploymentGuide ==
    <<"list_datasets", "load_dataset", "list_models", "load_model", "list_explainers",
      "generate_explanation", "list_metrics", "evaluate_explanation", "get_leaderboard",
      "get_framework_info">>

\* The case labels of the switch, in source order.
SwitchCases ==
    <<"list_datasets", "load_dataset", "list_models", "load_model", "list_explainers",
      "generate_explanation", "list_metrics", "evaluate_explanation", "get_leaderboard",
      "get_framework_info", "get_deployment_guide">>

\* The case the switch selects for name: the handler that runs, or "default".
Dispatch(name) == IF name \in Range(SwitchCases) THEN name ELSE "default"

\* args.key evaluated for each key in turn; the first TypeError ends the
\* evaluation of the argument list.
ArgsThrow(args, keys) == GetProp(args, Head(keys)).threw

Arg(args, key) == GetProp(args, key).value

\* The body of the try block: the switch on name.
Switch(name, args, now) ==
    CASE Dispatch(name) = "list_datasets" ->
           IF ArgsThrow(args, <<"category">>) THEN GetProp(args, "category")
           ELSE listDatasets(Or(Arg(args, "category"), Lit("all")))
      [] Dispatch(name) = "load_dataset" ->
           IF ArgsThrow(args, <<"dataset_name", "download">>) THEN GetProp(args, "dataset_name")
           ELSE loadDataset(Arg(args, "dataset_name"), Arg(args, "download"))
      [] Dispatch(name) = "list_models" ->
           IF ArgsThrow(args, <<"dataset_name", "model_type">>) THEN GetProp(args, "dataset_name")
           ELSE listModels(Arg(args, "dataset_name"), Or(Arg(args, "model_type"), Lit("all")))
      [] Dispatch(name) = "load_model" ->
           IF ArgsThrow(args, <<"data_name", "ml_model", "pretrained">>) THEN GetProp(args, "data_name")
           ELSE loadModel(Arg(args, "data_name"), Arg(args, "ml_model"), Arg(args, "pretrained"))
      [] Dispatch(name) = "list_explainers" ->
           IF ArgsThrow(args, <<"method_type">>) THEN GetProp(args, "method_type")
           ELSE listExplainers(Or(Arg(args, "method_type"), Lit("all")))
      [] Dispatch(name) = "generate_explanation" ->
           IF ArgsThrow(args, <<"method", "data_sample", "model_info">>) THEN GetProp(args, "method")
           ELSE generateExplanation(Arg(args, "method"), Arg(args, "data_sample"),
                                    Arg(args, "model_info"))
      [] Dispatch(name) = "list_metrics" ->
           IF ArgsThrow(args, <<"metric_type">>) THEN GetProp(args, "metric_type")
           ELSE listMetrics(Or(Arg(args, "metric_type"), Lit("all")))
      [] Dispatch(name) = "evaluate_explanation" ->
           IF ArgsThrow(args, <<"metric", "explanation", "model_info">>) THEN GetProp(args, "metric")
           ELSE evaluateExplanation(Arg(args, "metric"), Arg(args, "explanation"),
                                    Arg(args, "model_info"))
      [] Dispatch(name) = "get_leaderboard" ->
           IF ArgsThrow(args, <<"dataset", "metric">>) THEN GetProp(args, "dataset")
           ELSE getLeaderboard(Arg(args, "dataset"), Arg(args, "metric"), now)
      [] Dispatch(name) = "get_framework_info" ->
           IF ArgsThrow(args, <<"info_type">>) THEN GetProp(args, "info_type")
           ELSE getFrameworkInfo(Or(Arg(args, "info_type"), Lit("overview")))
      [] Dispatch(name) = "get_deployment_guide" ->
           IF ArgsThrow(args, <<"deployment_type">>) THEN GetProp(args, "deployment_type")
           ELSE getDeploymentGuide(Or(Arg(args, "deployment_type"), Lit("quick_start")))
      [] OTHER -> Throw(Lit("Unknown tool: " \o name))

\* A router without the try/catch: the exception propagates to the caller.
Catch_Rethrow(completion) == completion

\* A catch block that returns the bare message, without the 'Error: ' prefix.
Catch_NoPrefix(completion) ==
    IF completion.threw
    THEN Return(TextResult(completion.message))
    ELSE completion

\* catch (error) { return { content: [{ type: 'text', text: `Error: ${error.message}` }] } }
Catch(completion) ==
    IF completion.threw
    THEN Return(TextResult(Cat(Lit("Error: "), completion.message)))
    ELSE completion

\* A router that stamps every result with the time of the invocation.
CallToolHandler_Stamped(req, now) ==
    LET completion == Catch(Switch(req.params.name, req.params.arguments, now)) IN
    Return(TextResult(Cat(JsToString(completion.value.content[1].text),
                          Cat(Lit("\n\nGenerated: "), toISOString(now)))))

\* async (request) => { const { name, arguments: args } = request.params; try { ... } catch ... }
CallToolHandler(req, now) ==
    Catch(Switch(req.params.name, req.params.arguments, now))


(***************************************************************************)
(* Requests the server can receive.  The SDK parses a request against its  *)
(* schema before the handler runs, so params.name is always a string and   *)
(* params.arguments is either absent (undefined) or an object.             *)
(***************************************************************************)
\* Strings that are no identifier of any catalog; the first MaxProbe are used.
ProbeStrings == <<"zzz", "constructor", "toString", "__proto__", "", "valueOf">>

Probes == {ProbeStrings[i] : i \in {j \in DOMAIN ProbeStrings : j <= MaxProbe}}

Strings(set) == {Lit(x) : x \in set}

\* Values of a model_info argument.
ModelInfoValues ==
    {Undefined, Null, Lit("german"), Obj(EmptyProps),
     Obj([data_name |-> Lit("german"), ml_model |-> Lit("ann")]),
     Obj([data_name |-> Lit("zzz"), ml_model |-> Lit("constructor")])}

\* Values offered for a parameter of a tool, Undefined standing for a
\* parameter left out of the arguments object.
ParamValues(tool, key) ==
    LET prop == tool.properties[key] IN
    {Undefined} \cup
    (CASE prop.type = "boolean" -> {Bool(TRUE), Bool(FALSE)}
       [] prop.type = "object"  -> ModelInfoValues
       [] prop.enum # <<>>      ->
              Strings(Range(prop.enum) \cup Probes
                      \cup (IF key = "metric" THEN {"pgi"} ELSE {})
                      \cup (IF key \in {"category", "model_type", "method_type", "metric_type"}
                            THEN {""} ELSE {}))
       [] key = "dataset_name" /\ tool.name = "load_dataset" ->
              Strings({"german", "compas", "adult", "mnist", "german_credit"} \cup Probes)
       [] key = "dataset_name" /\ tool.name = "list_models" ->
              Strings({"german", "mnist", "german_credit", ""} \cup Probes)
       [] key \in {"dataset_name", "dataset"} ->
              Strings({"german", "mnist", "german_credit"} \cup Probes)
       [] key = "data_name"     -> Strings({"german"} \cup Probes)
       [] key = "metric"        -> Strings({"PGI"} \cup Probes)
       [] OTHER                 -> Strings({"{}"}))

\* The arguments object built from a choice of one value per parameter: the
\* parameters chosen Undefined are not properties of the object.
ArgsObject(choice) ==
    Obj([k \in {j \in DOMAIN choice : choice[j] # Undefined} |-> choice[k]])

ToolArguments(tool) ==
    {Undefined} \cup
    {ArgsObject(choice) :
        choice \in {c \in [Range(tool.keys) -> UNION {ParamValues(tool, k) : k \in Range(tool.keys)}] :
                        \A k \in Range(tool.keys) : c[k] \in ParamValues(tool, k)}}

CallToolRequest(name, args) ==
    [method |-> "tools/call", params |-> [name |-> name, arguments |-> args]]

\* Names that are no tool of the server.
UndeclaredNames == Probes \cup {"LIST_DATASETS"}

CallToolRequests ==
    UNION {{CallToolRequest(Tools[i].name, a) : a \in ToolArguments(Tools[i])} : i \in DOMAIN Tools}
    \cup {CallToolRequest(n, a) : n \in UndeclaredNames,
                                  a \in {Undefined, Obj(EmptyProps), Obj([category |-> Lit("all")])}}

ListToolsRequest == [method |-> "tools/list"]

NoRequest == [method |-> "none"]

(***************************************************************************)
(* The server as a state machine: the transport delivers a request, the    *)
(* handler registered for its method answers it, and time passes.          *)
(***************************************************************************)
\* No response yet for the request in flight.
Pending == [threw |-> FALSE, value |-> Undefined]

\* The client has noted no result.
NoRecord == [request |-> NoRequest, response |-> Pending, later |-> FALSE]

\* The invocations whose result a client notes, to compare it with the
\* result of the same invocation made again later: one that succeeds, one
\* that fails in its handler, one of an undeclared name, and two more tools.
ReplayedRequests ==
    { CallToolRequest("list_datasets", Obj(EmptyProps)),
      CallToolRequest("load_dataset", Obj([dataset_name |-> Lit("zzz")])),
      CallToolRequest("load_model", Obj([data_name |-> Lit("german"), ml_model |-> Lit("ann")])),
      CallToolRequest("get_leaderboard", Obj(EmptyProps)),
      CallToolRequest("zzz", Obj(EmptyProps)) }

(***************************************************************************)
(* The files and the runs of the OpenXAI Studio scripts.                   *)
(***************************************************************************)
ConfigPath == "config/openxai-studio.json"

WalletPath == "config/wallet.json"

\* deployments/${deployment.id}.json
DeploymentPath == "deployments/deploy-id.json"

ListPath == "deployments/list.json"

QuickAccessPath == "deployments/quick-access.json"

DeploymentPaths == {DeploymentPath, ListPath, QuickAccessPath}

Paths == {ConfigPath, WalletPath} \cup DeploymentPaths

\* The content of a file, as far as the scripts tell contents apart: no
\* file, a file fs.readJSON cannot parse, JSON of another shape than the
\* scripts expect, and JSON as the scripts and setup write it.
FileStates == {"absent", "not json", "other json", "written"}

\* fs.readJSON(path) resolves rather than rejects.
Readable(state) == state \in {"other json", "written"}

\* No script is running.
NotRunning ==
    [script |-> "none", at |-> "exited", configRead |-> FALSE, reported |-> FALSE,
     answer |-> "", wallet |-> "none", failed |-> FALSE, written |-> {}]

\* waitForDeployment has not been called.
NotWaiting ==
    [at |-> "not called", status |-> "none", endpoint |-> "none",
     returned |-> "none", thrown |-> "none", failedSeen |-> FALSE]

\* The wizard has not been started.
NotStarted ==
    [at |-> "not started", provider |-> "none", auth |-> "none", scaling |-> "none",
     confirm |-> "", configWritten |-> FALSE, command |-> "none", error |-> "none"]

scriptVars == <<studioVars, xnodeVars, wizardVars>>

Init ==
    /\ clock = 0
    /\ pc = "idle"
    /\ request = NoRequest
    /\ response = Pending
    /\ dispatched = "none"
    /\ caught = FALSE
    /\ earlier = NoRecord
    /\ files = [p \in Paths |-> "absent"]
    /\ run = NotRunning
    /\ attempts = 0
    /\ polls = 0
    /\ wait = NotWaiting
    /\ wizard = NotStarted

\* The wall clock advances.
Tick ==
    /\ clock < MaxClock
    /\ clock' = clock + 1
    /\ UNCHANGED <<pc, request, response, dispatched, caught, earlier>>
    /\ UNCHANGED scriptVars

\* The transport delivers the next request (requests are processed one at a
\* time).
Receive ==
    /\ pc = "idle"
    /\ \E req \in {ListToolsRequest} \cup CallToolRequests : request' = req
    /\ pc' = "handling"
    /\ response' = Pending
    /\ dispatched' = "none"
    /\ caught' = FALSE
    /\ earlier' = IF earlier = NoRecord THEN earlier ELSE [earlier EXCEPT !.later = TRUE]
    /\ UNCHANGED clock
    /\ UNCHANGED scriptVars

\* The ListToolsRequestSchema handler answers the request.
ListTools ==
    /\ pc = "handling"
    /\ request.method = "tools/list"
    /\ response' = ListToolsHandler
    /\ pc' = "idle"
    /\ UNCHANGED <<clock, request, dispatched, caught, earlier>>
    /\ UNCHANGED scriptVars

\* The CallToolRequestSchema handler answers the request.
CallTool ==
    /\ pc = "handling"
    /\ request.method = "tools/call"
    /\ response' = CallToolHandler(request, clock)
    /\ dispatched' = Dispatch(request.params.name)
    /\ caught' = Switch(request.params.name, request.params.arguments, clock).threw
    /\ pc' = "idle"
    /\ UNCHANGED <<clock, request, earlier>>
    /\ UNCHANGED scriptVars

Next == Tick \/ Receive \/ ListTools \/ CallTool

Spec == Init /\ [][Next]_vars

\* A client notes the result it has just received.
Remember ==
    /\ pc = "idle"
    /\ earlier = NoRecord
    /\ request \in ReplayedRequests
    /\ earlier' = [request |-> request, response |-> response, later |-> FALSE]
    /\ UNCHANGED <<clock, pc, request, response, dispatched, caught>>
    /\ UNCHANGED scriptVars

NextReplay == Tick \/ Receive \/ ListTools \/ CallTool \/ Remember

\* The server together with a client that notes a result and repeats the
\* invocation after any number of other invocations.
SpecReplay == Init /\ [][NextReplay]_vars

(***************************************************************************)
(* Properties of the router and of the tool listing.                       *)
(***************************************************************************)
\* A tools/call request has been answered.
Answered == pc = "idle" /\ request.method = "tools/call"

\* A tools/list request has been answered.
Listed == pc = "idle" /\ request.method = "tools/list"

Name == request.params.name

Args == request.params.arguments

\* The content blocks of the result returned for the request.
Content == response.value.content

\* The names in the answer to the tool-listing request.
ListedNames(tools) == {tools[i].name : i \in DOMAIN tools}

\* The tool names of the catalog of the documentation (SUBMISSION_GUIDE.md,
\* test.js).
TenToolNames ==
    {"list_datasets", "load_dataset", "list_models", "load_model", "list_explainers",
     "generate_explanation", "list_metrics", "evaluate_explanation", "get_leaderboard",
     "get_framework_info"}

\* The argument key was supplied with the request.
Supplied(key) == Args.t = "object" /\ key \in DOMAIN Args.p

\* C1: whatever the tool name and the arguments (absent arguments and
\* missing required fields included), the request handler never throws, and
\* when dispatching or the handler raised an exception the result is a single
\* text block 'Error: ' followed by the exception's message.
C1_RouterCatchesEveryException ==
    Answered =>
        LET raised == Switch(Name, Args, clock) IN
        /\ response.threw = FALSE
        /\ raised.threw =>
              /\ Len(Content) = 1
              /\ Content[1].type = "text"
              /\ Content[1].text = Lit("Error: " \o raised.message.s)

\* C1 witness: generate_explanation without model_info raised a TypeError
\* inside the handler and the router answered with the error text.
C1_Witness ==
    /\ Answered
    /\ request = CallToolRequest("generate_explanation",
                                 Obj([method |-> Lit("lime"), data_sample |-> Lit("{}")]))
    /\ caught
    /\ response = Return(TextResult(
          Lit("Error: Cannot read properties of undefined (reading 'data_name')")))

\* C2: the tool-listing request enumerates exactly the ten tool names of the
\* documented catalog, none missing and no other listed.
C2_ListsExactlyTenTools ==
    Listed =>
        /\ ListedNames(response.value.tools) = TenToolNames
        /\ Len(response.value.tools) = 10

\* C3: a request naming one of the ten tools of the catalog is dispatched to
\* that tool's handler, whatever its arguments, and is never answered with
\* the 'Unknown tool' error.
C3_CatalogToolsAreDispatched ==
    (Answered /\ Name \in TenToolNames) =>
        /\ dispatched = Name
        /\ Content[1].text # Lit("Error: Unknown tool: " \o Name)

\* C3 witness: get_framework_info, called without arguments, reached its case
\* of the switch and failed there with a TypeError, not with 'Unknown tool'.
C3_Witness ==
    /\ Answered
    /\ request = CallToolRequest("get_framework_info", Undefined)
    /\ dispatched = "get_framework_info"
    /\ Content[1].text = Lit("Error: Cannot read properties of undefined (reading 'info_type')")

\* C4: the names the router dispatches are exactly the names the listing
\* returns, and each of them has exactly one tool specification there.
C4_RouterNamesAreListedOnce ==
    /\ Listed =>
          LET tools == response.value.tools IN
          /\ ListedNames(tools) = Range(SwitchCases)
          /\ \A n \in Range(SwitchCases) :
                Cardinality({i \in DOMAIN tools : tools[i].name = n}) = 1
    /\ Answered => ((dispatched # "default") <=> (Name \in ListedNames(Tools)))

\* C4 witness: the listing has been answered with its eleven specifications.
C4_Witness ==
    /\ Listed
    /\ Len(response.value.tools) = 11
    /\ "get_deployment_guide" \in ListedNames(response.value.tools)

\* C5: a request whose name is not a declared tool runs no handler and is
\* answered with the single text block 'Error: Unknown tool: <name>'.
C5_UndeclaredNameIsUnknownTool ==
    (Answered /\ Name \notin ListedNames(Tools)) =>
        /\ dispatched = "default"
        /\ caught
        /\ response = Return(TextResult(Lit("Error: Unknown tool: " \o Name)))

\* C5 witness: the name 'constructor', with arguments, was answered with the
\* unknown-tool error.
C5_Witness ==
    /\ Answered
    /\ request = CallToolRequest("constructor", Obj([category |-> Lit("all")]))
    /\ response = Return(TextResult(Lit("Error: Unknown tool: constructor")))

\* C6: every result of a tool invocation, on success and on error, is exactly
\* one content block of kind text whose payload is a string.
C6_ResultIsOneTextBlock ==
    Answered =>
        /\ Len(Content) = 1
        /\ Content[1].type = "text"
        /\ Content[1].text.t = "string"

\* The request omits a parameter its tool's schema declares required.
RequiredParameterMissing ==
    \E i \in DOMAIN Tools :
        /\ Tools[i].name = Name
        /\ \E k \in Range(Tools[i].required) : ~Supplied(k)

\* C7: an invocation that omits a parameter its tool's schema declares
\* required fails with an error (naming the field) and returns no success
\* payload.
C7_MissingRequiredParameterFails ==
    (Answered /\ RequiredParameterMissing) => caught

\* The request supplies, for a parameter whose schema declares an enum, a
\* value outside that enum.
EnumParameterViolated ==
    \E i \in DOMAIN Tools :
        /\ Tools[i].name = Name
        /\ \E k \in Range(Tools[i].keys) :
              /\ Tools[i].properties[k].enum # <<>>
              /\ Supplied(k)
              /\ ~Includes(Tools[i].properties[k].enum, Args.p[k])

\* C8: an invocation that supplies a value outside the enumeration its
\* parameter's schema declares fails with an error instead of returning a
\* success payload.
C8_ValueOutsideEnumFails ==
    (Answered /\ EnumParameterViolated) => caught

\* C9: load_model fails with an error, whatever data_name is, for every
\* ml_model that is not one of ann, lr, rf, svm, xgb.
C9_LoadModelRejectsUnknownModel ==
    (/\ Answered
     /\ Name = "load_model"
     /\ Supplied("ml_model")
     /\ ~Includes(<<"ann", "lr", "rf", "svm", "xgb">>, Args.p["ml_model"])) => caught

\* C10: load_dataset returns a success payload only for a dataset_name that
\* is german, compas or adult, and answers every other dataset_name (an
\* absent one included) with the not-found error.
C10_LoadDatasetRejectsUnknownDataset ==
    (Answered /\ Name = "load_dataset" /\ Args.t = "object") =>
        LET given == IF Supplied("dataset_name") THEN Args.p["dataset_name"] ELSE Undefined IN
        IF Includes(<<"german", "compas", "adult">>, given)
        THEN ~caught
        ELSE response = Return(TextResult(
                Lit("Error: Dataset '" \o JsToString(given).s
                    \o "' not found. Available datasets: german, compas, adult")))

(***************************************************************************)
(* Properties of the catalog handlers.                                     *)
(***************************************************************************)
\* C11: list_datasets fails with an unknown-category error when the category
\* supplied is not one of synthetic, real-world, tabular, image, text, all.
C11_UnknownCategoryFails ==
    (/\ Answered
     /\ Name = "list_datasets"
     /\ Supplied("category")
     /\ ~Includes(<<"synthetic", "real-world", "tabular", "image", "text", "all">>,
                  Args.p["category"]))
    => /\ caught
       /\ dispatched = "list_datasets"

\* The optional parameters with a default: tool, parameter, default value.
DefaultedParameters ==
    { <<"list_datasets", "category", Lit("all")>>,
      <<"list_models", "model_type", Lit("all")>>,
      <<"list_explainers", "method_type", Lit("all")>>,
      <<"list_metrics", "metric_type", Lit("all")>>,
      <<"get_framework_info", "info_type", Lit("overview")>>,
      <<"load_dataset", "download", Bool(TRUE)>>,
      <<"load_model", "pretrained", Bool(TRUE)>> }

\* The request answered, with one more argument.
WithArgument(key, value) ==
    CallToolRequest(Name, Obj((key :> value) @@ Args.p))

Replayed == Answered /\ earlier.later /\ earlier.request = request

Identifier(item) == IF item.t = "string" THEN item.s ELSE item.p.name

\* The items serialised into the text of the result.
ListedItems == Content[1].text.json[1].items

ListedIdentifiers == {Identifier(ListedItems[i]) : i \in DOMAIN ListedItems}

\* list_datasets has been answered for the category given.
DatasetsListedFor(category) ==
    /\ Answered
    /\ Name = "list_datasets"
    /\ Supplied("category")
    /\ Args.p["category"] = Lit(category)

\* C14: list_datasets with category 'tabular' returns exactly the identifiers
\* german, compas, adult, folktable, synthetic_classification and
\* synthetic_regression, and no other.
C14_TabularListsSixIdentifiers ==
    DatasetsListedFor("tabular") =>
        /\ ~caught
        /\ Content[1].text.s = "Available OpenXAI datasets (tabular):\n\n<json>"
        /\ Len(ListedItems) = 6
        /\ ListedIdentifiers = {"german", "compas", "adult", "folktable",
                                "synthetic_classification", "synthetic_regression"}

\* C14 witness: the tabular listing has been answered with its six names.
C14_Witness ==
    /\ DatasetsListedFor("tabular")
    /\ ListedItems[1] = Lit("german")
    /\ ListedItems[6] = Lit("synthetic_regression")

\* The identifiers of each category, as the source groups them.
CategoryIdentifiers ==
    ("synthetic" :> {"synthetic_classification", "synthetic_regression"})
 @@ ("real-world" :> {"german", "compas", "adult", "folktable"})
 @@ ("tabular" :> {"german", "compas", "adult", "folktable",
                   "synthetic_classification", "synthetic_regression"})
 @@ ("image" :> {"mnist", "cifar10"})
 @@ ("text" :> {"imdb"})

\* C15: for every category other than 'all', the dataset listing returns only
\* entries of that category, and every entry of it.
C15_ListingIsTheCategory ==
    \A c \in DOMAIN CategoryIdentifiers :
        DatasetsListedFor(c) =>
            /\ ~caught
            /\ ListedIdentifiers = CategoryIdentifiers[c]
            /\ Len(ListedItems) = Cardinality(CategoryIdentifiers[c])

\* C15 witness: the image listing has been answered with mnist and cifar10.
C15_Witness ==
    /\ DatasetsListedFor("image")
    /\ ListedIdentifiers = {"mnist", "cifar10"}

RECURSIVE SumOfLengths(_)
SumOfLengths(categories) ==
    IF categories = <<>> THEN 0
    ELSE Len(listDatasetsResult(Lit(Head(categories))).items)
         + SumOfLengths(Tail(categories))

\* C16: the dataset listing for 'all' is as long as the listings of
\* synthetic, real-world, tabular, image and text together, and no dataset
\* identifier occurs in it more than once.
C16_AllIsTheSumWithoutDuplicates ==
    DatasetsListedFor("all") =>
        /\ Len(ListedItems)
              = SumOfLengths(<<"synthetic", "real-world", "tabular", "image", "text">>)
        /\ \A i, j \in DOMAIN ListedItems :
              Identifier(ListedItems[i]) = Identifier(ListedItems[j]) => i = j

\* The entry list_datasets gives for a dataset identifier (in real-world).
CatalogEntry(id) ==
    LET entries == listDatasetsResult(Lit("real-world")).items
    IN entries[CHOOSE i \in DOMAIN entries : entries[i].p.name = id].p

\* The text of a load_dataset success that states the given figures.
LoadDatasetText(heading, id, features, samples, classes, download) ==
    Lit(heading \o "\n\nDataset: " \o id
        \o "\nFeatures: " \o ToString(features)
        \o "\nSamples: " \o ToString(samples)
        \o "\nClasses: " \o ToString(classes)
        \o "\nTask: classification\n\nPython code example:\n~~~python"
        \o "\n# Example usage with OpenXAI:\nfrom openxai.dataloader import ReturnLoaders\n\n# Load the dataset\ntrainloader, testloader = ReturnLoaders(data_name='"
        \o id \o "', download=" \o download
        \o ")\n\n# Get a sample from the test dataset\ninputs, labels = next(iter(testloader))\nprint(f\"Input shape: {inputs.shape}\")\nprint(f\"Labels shape: {labels.shape}\")\n~~~")

LoadedHeading ==
    [german |-> "German Credit dataset loaded successfully",
     compas |-> "COMPAS Recidivism dataset loaded successfully",
     adult  |-> "Adult Income dataset loaded successfully"]

\* load_dataset has been answered for the dataset given.
DatasetLoaded(id) ==
    /\ Answered
    /\ Name = "load_dataset"
    /\ Supplied("dataset_name")
    /\ Args.p["dataset_name"] = Lit(id)

\* C17: for german, compas and adult the load_dataset payload states the
\* features, samples and classes that the list_datasets catalog gives for
\* the same identifier; for german these are 20, 1000 and 2.
C17_LoadedFiguresMatchCatalog ==
    /\ \A id \in {"german", "compas", "adult"} :
          DatasetLoaded(id) =>
              LET entry    == CatalogEntry(id)
                  download == IF Supplied("download")
                              THEN JsToString(Args.p["download"]).s ELSE "true"
              IN /\ ~caught
                 /\ Content[1].text = LoadDatasetText(LoadedHeading[id], id, entry.features,
                                                      entry.samples, entry.classes, download)
    /\ DatasetLoaded("german") =>
          /\ CatalogEntry("german").features = 20
          /\ CatalogEntry("german").samples = 1000
          /\ CatalogEntry("german").classes = 2

\* C17 witness: load_dataset german has been answered with features 20,
\* samples 1000 and classes 2.
C17_Witness ==
    /\ DatasetLoaded("german")
    /\ ~Supplied("download")
    /\ Content[1].text = LoadDatasetText("German Credit dataset loaded successfully",
                                         "german", 20, 1000, 2, "true")

\* The metrics of the evaluate_explanation schema.
ElevenMetrics == {"PGI", "PGU", "RIS", "RRS", "ROS", "FA", "RA", "SA", "SRA", "RC", "PRA"}

\* The text of an evaluate_explanation success that names the metric and
\* embeds the data_name and ml_model given.
EvaluateText(metric, dataName, mlModel, explanation) ==
    Lit("Evaluated explanation using " \o metric \o " metric\n\nMetric: " \o metric
        \o "\nDataset: " \o dataName \o "\nModel: " \o mlModel
        \o "\nExplanation: " \o explanation
        \o "\n\nPython code example:\n~~~python"
        \o "\n# Example usage with OpenXAI:\nfrom openxai import Evaluator\nfrom openxai import LoadModel\nfrom openxai import Explainer\nfrom openxai.dataloader import ReturnLoaders\n\n# Load model and data\nmodel = LoadModel(data_name='"
        \o dataName \o "', ml_model='" \o mlModel
        \o "', pretrained=True)\ntrainloader, testloader = ReturnLoaders(data_name='"
        \o dataName
        \o "', download=True)\n\n# Generate explanations\nexplainer = Explainer(method='lime', model=model)\ninputs, labels = next(iter(testloader))\nexplanations = explainer.get_explanations(inputs)\n\n# Evaluate explanations\nevaluator = Evaluator(model, metric='"
        \o metric
        \o "')\nscore = evaluator.evaluate(\n    inputs=inputs,\n    labels=labels,\n    explanations=explanations\n)\n\nprint(f\""
        \o metric \o " score: {score}\")\n~~~")

\* The model_info argument is an object that has data_name and ml_model.
ModelInfoGiven ==
    /\ Supplied("model_info")
    /\ Args.p["model_info"].t = "object"
    /\ {"data_name", "ml_model"} \subseteq DOMAIN Args.p["model_info"].p

\* The metric argument is one of the eleven metrics.
MetricIsValid ==
    /\ Supplied("metric")
    /\ Args.p["metric"].t = "string"
    /\ Args.p["metric"].s \in ElevenMetrics

SupportedDatasets ==
    [ann |-> {"german", "compas", "adult", "folktable", "mnist", "cifar10"},
     lr  |-> {"german", "compas", "adult", "folktable"},
     rf  |-> {"german", "compas", "adult", "folktable"},
     svm |-> {"german", "compas", "adult", "folktable"},
     xgb |-> {"german", "compas", "adult", "folktable"}]

\* The model types that pass both filters of the request answered.
ModelsPassingFilters ==
    {m \in DOMAIN SupportedDatasets :
        /\ \/ ~Supplied("model_type")
           \/ Args.p["model_type"] = Lit("all")
           \/ Args.p["model_type"] = Lit(m)
        /\ Supplied("dataset_name") => Args.p["dataset_name"].s \in SupportedDatasets[m]}

\* C19: list_models returns exactly the models that pass both filters: every
\* type for model_type 'all' or absent, only that type for a specific
\* model_type, and, when dataset_name is given, only the types whose
\* supported datasets include it.
C19_ListModelsAppliesBothFilters ==
    (Answered /\ Name = "list_models" /\ Args.t = "object") =>
        /\ ~caught
        /\ {ListedItems[i].type : i \in DOMAIN ListedItems} = ModelsPassingFilters
        /\ Len(ListedItems) = Cardinality(ModelsPassingFilters)

\* The metric types the documentation and the schema declare.
DeclaredMetricTypes == {"faithfulness", "stability", "fairness"}

\* C20: for each of the metric types faithfulness, stability and fairness,
\* list_metrics returns exactly one category entry, for that type, with its
\* metrics; with 'all' it returns one entry for every metric category.
C20_ListMetricsServesDeclaredTypes ==
    (Answered /\ Name = "list_metrics" /\ Supplied("metric_type")) =>
        /\ \A type \in DeclaredMetricTypes :
              Args.p["metric_type"] = Lit(type) =>
                  /\ Len(ListedItems) = 1
                  /\ ListedItems[1].category = type
                  /\ ListedItems[1].metrics # <<>>
        /\ Args.p["metric_type"] = Lit("all") =>
              /\ {ListedItems[i].category : i \in DOMAIN ListedItems} = Range(metricsKeys)
              /\ \A i, j \in DOMAIN ListedItems :
                    ListedItems[i].category = ListedItems[j].category => i = j

\* The well-formed model description the usage examples abbreviate as {...}.
ExampleModelInfo == Obj([data_name |-> Lit("german"), ml_model |-> Lit("ann")])

\* The request answered is one of the example tool calls the test suite prints.
UsageExample ==
    /\ Args.t = "object"
    /\ \/ Name = "list_datasets" /\ Args.p = [category |-> Lit("tabular")]
       \/ Name = "load_dataset"
            /\ Args.p = [dataset_name |-> Lit("german_credit"), download |-> Bool(TRUE)]
       \/ Name = "list_explainers" /\ Args.p = [method_type |-> Lit("local")]
       \/ Name = "generate_explanation"
            /\ DOMAIN Args.p = {"method", "data_sample", "model_info"}
            /\ Args.p["method"] = Lit("lime")
            /\ Args.p["model_info"] = ExampleModelInfo
       \/ Name = "evaluate_explanation"
            /\ DOMAIN Args.p = {"metric", "explanation", "model_info"}
            /\ Args.p["metric"] = Lit("pgi")
            /\ Args.p["model_info"] = ExampleModelInfo

\* C21: every example tool call of the test suite's usage list is dispatched
\* to its handler and answered with a success payload, not an error text.
C21_UsageExamplesAreAccepted ==
    (Answered /\ UsageExample) => (dispatched = Name /\ ~caught)

\* The filter parameter of each list tool.
ListFilters ==
    [list_datasets   |-> "category",
     list_models     |-> "model_type",
     list_explainers |-> "method_type",
     list_metrics    |-> "metric_type"]

\* A list tool invoked with its filter alone.
FilterRequest(name, value) ==
    CallToolRequest(name, Obj((ListFilters[name] :> Lit(value))))

\* The list-tool requests whose filter value is none of the values the
\* tool's schema declares.
UnrecognisedFilterRequests ==
    UNION {{FilterRequest(Tools[i].name, v) :
                v \in (Probes \cup {""})
                      \ Range(Tools[i].properties[ListFilters[Tools[i].name]].enum)} :
           i \in {j \in DOMAIN Tools : Tools[j].name \in DOMAIN ListFilters}}

\* The items of the list a list tool returns for a request made now; when the
\* text carries no list (JSON.stringify of a function is undefined), the one
\* item undefined.
ItemsReturned(req) ==
    LET text == CallToolHandler(req, clock).value.content[1].text IN
    IF text.json # <<>> /\ text.json[1].t = "array" THEN text.json[1].items
    ELSE <<Undefined>>

\* What the tool of the request returns for the filter value 'all'.
FullCatalog(name) == ItemsReturned(FilterRequest(name, "all"))

\* C23: for filter values that are no recognised category or type, the list
\* tools follow no single policy at any time: some handler and value yields
\* the empty list, and some handler and unrecognised value yields the full
\* catalog.
C23_UnrecognisedFilterPolicyVaries ==
    /\ \E req \in UnrecognisedFilterRequests : ItemsReturned(req) = <<>>
    /\ \E req \in UnrecognisedFilterRequests :
          /\ ItemsReturned(req) = FullCatalog(req.params.name)
          /\ ItemsReturned(req) # <<>>

\* C23 witness: list_datasets has been answered with all fifteen entries for
\* the category '', while the category 'zzz' gives it the empty list.
C23_Witness ==
    /\ Answered
    /\ request = FilterRequest("list_datasets", "")
    /\ ~caught
    /\ ListedItems = FullCatalog("list_datasets")
    /\ Len(ListedItems) = 15
    /\ ItemsReturned(FilterRequest("list_datasets", "zzz")) = <<>>

(***************************************************************************)
(* The OpenXAI Studio scripts: setup, then connect-wallet.js, then         *)
(* deploy-openxai-studio.js, run one at a time in one working directory.   *)
(***************************************************************************)
\* npm run setup:openxai-studio writes the configuration.
Setup ==
    /\ run.at = "exited"
    /\ files' = [files EXCEPT ![ConfigPath] = "written"]
    /\ run' = NotRunning
    /\ UNCHANGED <<serverVars, xnodeVars, wizardVars>>

\* Between two runs the user removes or edits the configuration or the list
\* of deployments.
EditFile ==
    /\ run.at = "exited"
    /\ \E path \in {ConfigPath, ListPath}, state \in FileStates \ {"written"} :
          files' = [files EXCEPT ![path] = state]
    /\ run' = NotRunning
    /\ UNCHANGED <<serverVars, xnodeVars, wizardVars>>

\* A script is started.
Start(script, at) ==
    /\ run.at = "exited"
    /\ run' = [NotRunning EXCEPT !.script = script, !.at = at]
    /\ UNCHANGED <<files, serverVars, xnodeVars, wizardVars>>

\* checkConfig with the file read left out.
checkConfig_Assumed(fs) == TRUE

\* WalletConnector.checkConfig
checkConfig(fs) == Readable(fs[ConfigPath])

StartConnectWallet == Start("connect-wallet", "checkConfig")

\* connect, step 1: without the configuration, report and return.
CheckConfig ==
    /\ run.script = "connect-wallet"
    /\ run.at = "checkConfig"
    /\ run' = IF checkConfig(files)
              THEN [run EXCEPT !.at = "selectWalletType",
                               !.configRead = Readable(files[ConfigPath])]
              ELSE [run EXCEPT !.at = "exited", !.reported = TRUE]
    /\ UNCHANGED <<files, serverVars, xnodeVars, wizardVars>>

\* The wallets offered, by choice.
wallets ==
    [c \in {"1", "2", "3", "4", "5", "6"} |->
        CASE c = "1" -> "metamask"
          [] c = "2" -> "walletconnect"
          [] c = "3" -> "coinbase"
          [] c = "4" -> "trust"
          [] c = "5" -> "hardware"
          [] c = "6" -> "other"]

\* The answers typed at a prompt that asks for a choice.
Choices == {"1", "2", "3", "4", "5", "6", "", "7", "constructor"}

\* (wallets[choice] || wallets['1']).type: an inherited property of wallets
\* is truthy and has no type.
selectWalletType(choice) ==
    IF choice \in DOMAIN wallets THEN wallets[choice]
    ELSE IF choice \in ObjectPrototypeProps THEN "undefined"
    ELSE wallets["1"]

\* connect, steps 2 to 4: the wallet is selected and its connection simulated.
SelectWalletType ==
    /\ run.script = "connect-wallet"
    /\ run.at = "selectWalletType"
    /\ \E choice \in Choices :
          run' = [run EXCEPT !.at = "saveConnectionInfo", !.answer = choice,
                             !.wallet = selectWalletType(choice)]
    /\ UNCHANGED <<files, serverVars, xnodeVars, wizardVars>>

\* connect, step 5: config/wallet.json is written, and the configuration is
\* updated when it has the shape setup gave it.
SaveConnectionInfo ==
    /\ run.script = "connect-wallet"
    /\ run.at = "saveConnectionInfo"
    /\ files' = [files EXCEPT ![WalletPath] = "written"]
    /\ run' = [run EXCEPT !.at = "exited",
                          !.written = {WalletPath} \cup
                              (IF files[ConfigPath] = "written" THEN {ConfigPath} ELSE {})]
    /\ UNCHANGED <<serverVars, xnodeVars, wizardVars>>

StartDeploy == Start("deploy-openxai-studio", "question")

\* shouldContinue.toLowerCase()
toLowerCase(answer) == IF answer = "Y" THEN "y" ELSE answer

\* deploy: the guide is printed and the user is asked whether to simulate the
\* deployment; any answer but y ends the run.
Question ==
    /\ run.script = "deploy-openxai-studio"
    /\ run.at = "question"
    /\ \E answer \in {"y", "Y", "n", ""} :
          run' = [run EXCEPT !.answer = answer,
                             !.at = IF toLowerCase(answer) # "y" THEN "exited"
                                    ELSE "loadConfig"]
    /\ UNCHANGED <<files, serverVars, xnodeVars, wizardVars>>

\* loadConfig: without the configuration, report and process.exit(1).
LoadConfig ==
    /\ run.script = "deploy-openxai-studio"
    /\ run.at = "loadConfig"
    /\ run' = IF Readable(files[ConfigPath])
              THEN [run EXCEPT !.at = "connectWallet", !.configRead = TRUE]
              ELSE [run EXCEPT !.at = "exited", !.reported = TRUE, !.failed = TRUE]
    /\ UNCHANGED <<files, serverVars, xnodeVars, wizardVars>>

\* deploy, steps 1 to 6: they read this.config.openxai_studio.wallet, .model
\* and .subscription, a TypeError for a configuration of another shape.
Simulate ==
    /\ run.script = "deploy-openxai-studio"
    /\ run.at = "connectWallet"
    /\ run' = IF files[ConfigPath] = "written"
              THEN [run EXCEPT !.at = "saveDeploymentInfo"]
              ELSE [run EXCEPT !.at = "exited", !.failed = TRUE]
    /\ UNCHANGED <<files, serverVars, xnodeVars, wizardVars>>

\* deploy, step 7: the deployment file is written, and then the list and the
\* quick-access file, unless the list read is no array (deployments.push is
\* no function).
SaveDeploymentInfo ==
    /\ run.script = "deploy-openxai-studio"
    /\ run.at = "saveDeploymentInfo"
    /\ LET written == IF files[ListPath] = "other json" THEN {DeploymentPath}
                      ELSE DeploymentPaths
       IN /\ files' = [p \in Paths |-> IF p \in written THEN "written" ELSE files[p]]
          /\ run' = [run EXCEPT !.at = "exited", !.written = written,
                                !.failed = files[ListPath] = "other json"]
    /\ UNCHANGED <<serverVars, xnodeVars, wizardVars>>

NextStudio ==
    \/ Setup \/ EditFile
    \/ StartConnectWallet \/ CheckConfig \/ SelectWalletType \/ SaveConnectionInfo
    \/ StartDeploy \/ Question \/ LoadConfig \/ Simulate \/ SaveDeploymentInfo

SpecStudio == Init /\ [][NextStudio]_vars

\* The run has ended, and the configuration was absent or unreadable in it.
EndedWithoutConfig ==
    /\ run.script # "none"
    /\ run.at = "exited"
    /\ ~Readable(files[ConfigPath])

\* The files of the run are written only after the configuration was read.
WritesOnlyAfterSetup ==
    /\ WalletPath \in run.written => (run.script = "connect-wallet" /\ run.configRead)
    /\ run.written \cap DeploymentPaths # {} =>
          (run.script = "deploy-openxai-studio" /\ run.configRead)

\* C22 (as stated): connect-wallet writes config/wallet.json, and
\* deploy-openxai-studio writes a file under deployments/, only in a run in
\* which config/openxai-studio.json was read; without it each script stops
\* after reporting that setup must be run first.
C22_SetupFirstEnforcedAndReported ==
    /\ WritesOnlyAfterSetup
    /\ EndedWithoutConfig => (run.reported /\ run.written = {})

\* C22 (amended): the files are written only in a run in which the
\* configuration was read; without it connect-wallet stops after reporting
\* that setup must be run first, and deploy-openxai-studio does so once the
\* user has answered y to its question, while after any other answer it
\* stops, writing nothing, before it looks for the configuration.
C22_SetupFirstEnforced ==
    /\ WritesOnlyAfterSetup
    /\ EndedWithoutConfig =>
          /\ run.written = {}
          /\ \/ run.reported
             \/ run.script = "deploy-openxai-studio" /\ toLowerCase(run.answer) # "y"

\* C22 witness: connect-wallet has ended without a configuration, having
\* reported it and written nothing.
C22_Witness ==
    /\ run.script = "connect-wallet"
    /\ EndedWithoutConfig
    /\ run.reported
    /\ files[WalletPath] = "absent"

(***************************************************************************)
(* XnodeDeployer.waitForDeployment: the status of the deployment is polled *)
(* until it is ready, with five seconds between two polls.                 *)
(***************************************************************************)
\* The loop with one more attempt.
maxAttempts_OneMore == 60 + 1

\* const maxAttempts = 60
maxAttempts == 60

\* What a status poll gives: the status of the response (pending stands for
\* every status that is neither ready nor failed), or error when the
\* request is rejected.
PollOutcomes == {"pending", "ready", "failed", "error"}

\* response.data.endpoint of a poll with the status given.
Endpoint(status) == "endpoint of a " \o status \o " response"

\* deploy, step 5: waitForDeployment is called.
StartWaiting ==
    /\ wait.at = "not called"
    /\ wait' = [wait EXCEPT !.at = "loop"]
    /\ attempts' = 0
    /\ UNCHANGED <<polls, serverVars, studioVars, wizardVars>>

\* One turn of the loop: the poll, and for a status that is not ready the
\* wait of five seconds and attempts++.  The error thrown for the status
\* failed is thrown inside the try block, so the catch block receives it as
\* it receives a rejected request: it throws it on in the last attempt only.
Poll ==
    /\ wait.at = "loop"
    /\ attempts < maxAttempts
    /\ polls' = polls + 1
    /\ \E outcome \in PollOutcomes :
          LET polled == [wait EXCEPT !.status = outcome,
                                     !.endpoint = Endpoint(outcome),
                                     !.failedSeen = @ \/ outcome = "failed"]
              error  == IF outcome = "failed" THEN "Deployment failed"
                        ELSE "request error"
          IN CASE outcome = "ready" ->
                     /\ wait' = [polled EXCEPT !.at = "returned",
                                               !.returned = polled.endpoint]
                     /\ UNCHANGED attempts
               [] outcome = "pending" ->
                     /\ wait' = polled
                     /\ attempts' = attempts + 1
               [] OTHER ->
                     IF attempts >= maxAttempts - 1
                     THEN /\ wait' = [polled EXCEPT !.at = "thrown", !.thrown = error]
                          /\ UNCHANGED attempts
                     ELSE /\ wait' = polled
                          /\ attempts' = attempts + 1
    /\ UNCHANGED <<serverVars, studioVars, wizardVars>>

\* The loop ends without a ready status: throw new Error('Deployment timeout').
Timeout ==
    /\ wait.at = "loop"
    /\ attempts >= maxAttempts
    /\ wait' = [wait EXCEPT !.at = "thrown", !.thrown = "Deployment timeout"]
    /\ UNCHANGED <<attempts, polls, serverVars, studioVars, wizardVars>>

NextXnode == StartWaiting \/ Poll \/ Timeout

SpecXnode == Init /\ [][NextXnode]_vars

\* Every poll has an outcome, and the loop goes on after it.
SpecXnodeFair == SpecXnode /\ WF_vars(Poll) /\ WF_vars(Timeout)

\* C24: as soon as a status poll reports the status failed, the function
\* throws the 'Deployment failed' error to its caller, without waiting and
\* without another status poll.
C24_FailedStatusIsThrownAtOnce ==
    wait.failedSeen => (wait.at = "thrown" /\ wait.thrown = "Deployment failed")

\* waitForDeployment has returned or thrown.
Ended == wait.at \in {"returned", "thrown"}

\* C25: waitForDeployment always terminates: whatever the poll outcomes are,
\* it issues at most 60 status polls and then returns the endpoint of a poll
\* that reported ready, or throws; it never returns an endpoint of a poll
\* whose status was not ready.
C25_WaitTerminatesWithin60Polls ==
    /\ [](polls <= 60)
    /\ [](wait.at = "returned" =>
            (wait.status = "ready" /\ wait.returned = Endpoint("ready")))
    /\ [](wait.at = "thrown" => wait.returned = "none")
    /\ (wait.at = "loop") ~> Ended

\* C25 witness: sixty polls were made, none reported ready, and the function
\* has thrown the timeout error.
C25_Witness ==
    /\ polls = 60
    /\ wait.at = "thrown"
    /\ wait.thrown = "Deployment timeout"
    /\ wait.returned = "none"

(***************************************************************************)
(* The deployment wizard (deploy-wizard.js, class DeploymentWizard).       *)
(***************************************************************************)
\* The providers offered, by choice.
providers ==
    [c \in {"1", "2", "3", "4", "5", "6"} |->
        CASE c = "1" -> "xnode-free"
          [] c = "2" -> "xnode-dvm"
          [] c = "3" -> "vultr"
          [] c = "4" -> "aws"
          [] c = "5" -> "gcp"
          [] c = "6" -> "custom"]

\* providers[choice]: the provider, an inherited function of the object
\* ("function"), or undefined ("undefined").
ProviderChosen(choice) ==
    IF choice \in DOMAIN providers THEN providers[choice]
    ELSE IF choice \in ObjectPrototypeProps THEN "function"
    ELSE "undefined"

\* wizard.run() is called.
StartWizard ==
    /\ wizard.at = "not started"
    /\ wizard' = [wizard EXCEPT !.at = "chooseProvider"]
    /\ UNCHANGED <<serverVars, studioVars, xnodeVars>>

\* chooseProvider: a choice that gives no provider is asked again.
ChooseProvider ==
    /\ wizard.at = "chooseProvider"
    /\ \E choice \in Choices :
          LET provider == ProviderChosen(choice) IN
          wizard' = IF provider = "undefined" THEN wizard
                    ELSE [wizard EXCEPT !.at = "setupAuth", !.provider = provider]
    /\ UNCHANGED <<serverVars, studioVars, xnodeVars>>

\* The authentication of the choice typed (switch (authChoice)).
AuthOf(authChoice) ==
    CASE authChoice = "2" -> "web3"
      [] authChoice = "3" -> "oauth"
      [] OTHER            -> "api_key"

\* configureModel (every answer has a default), then setupAuth.
SetupAuth ==
    /\ wizard.at = "setupAuth"
    /\ \E authChoice \in {"1", "2", "3", ""} :
          wizard' = [wizard EXCEPT
                        !.at = "configureScaling",
                        !.auth = IF wizard.provider = "xnode-free" THEN "none"
                                 ELSE AuthOf(authChoice)]
    /\ UNCHANGED <<serverVars, studioVars, xnodeVars>>

\* The scaling of the choice typed (switch (scalingChoice), '' being '1').
ScalingOf(scalingChoice) ==
    CASE scalingChoice = "2" -> "fixed"
      [] scalingChoice = "3" -> "manual"
      [] OTHER               -> "auto"

\* configureScaling
ConfigureScaling ==
    /\ wizard.at = "configureScaling"
    /\ \E scalingChoice \in {"1", "2", "3", "", "7"} :
          wizard' = [wizard EXCEPT
                        !.at = "reviewAndDeploy",
                        !.scaling = IF wizard.provider = "xnode-free" THEN "auto"
                                    ELSE ScalingOf(scalingChoice)]
    /\ UNCHANGED <<serverVars, studioVars, xnodeVars>>

\* The command the switch of reviewAndDeploy runs for the provider, "none"
\* in its default case.
DeployCommand(provider) ==
    CASE provider \in {"xnode-free", "xnode-dvm"} -> "npm run deploy:xnode"
      [] provider = "vultr" -> "npm run deploy:vultr"
      [] provider = "aws"   -> "npm run deploy:aws"
      [] provider = "gcp"   -> "npm run deploy:gcp"
      [] OTHER              -> "none"

\* reviewAndDeploy: unless the user confirms, nothing is done; otherwise
\* config/deployment.json is written, and then the command of the provider
\* is run, which may fail.
ReviewAndDeploy ==
    /\ wizard.at = "reviewAndDeploy"
    /\ \E confirm \in {"y", "Y", "n", ""}, succeeds \in BOOLEAN :
          LET command == DeployCommand(wizard.provider) IN
          wizard' =
              IF toLowerCase(confirm) # "y"
              THEN [wizard EXCEPT !.at = "exited", !.confirm = confirm]
              ELSE [wizard EXCEPT
                       !.at = "exited",
                       !.confirm = confirm,
                       !.configWritten = TRUE,
                       !.command = command,
                       !.error = IF command = "none" THEN "Unsupported provider"
                                 ELSE IF succeeds THEN "none"
                                 ELSE "Command failed"]
    /\ UNCHANGED <<serverVars, studioVars, xnodeVars>>

NextWizard ==
    StartWizard \/ ChooseProvider \/ SetupAuth \/ ConfigureScaling \/ ReviewAndDeploy

SpecWizard == Init /\ [][NextWizard]_vars

\* C28: every provider chooseProvider returns is supported by
\* reviewAndDeploy: once the user has confirmed with y, the provider is
\* mapped to a deploy command, and the 'Unsupported provider' failure is
\* never reached after config/deployment.json was written.
C28_ChosenProviderIsSupported ==
    (wizard.at = "exited" /\ toLowerCase(wizard.confirm) = "y") =>
        /\ wizard.command # "none"
        /\ ~(wizard.configWritten /\ wizard.error = "Unsupported provider")

(***************************************************************************)
(* Agreement of the listing tools with the acting tools of the server.     *)
(***************************************************************************)
\* The identifiers list_datasets reports under all.
AllListedDatasets ==
    {Identifier(item) : item \in Range(FullCatalog("list_datasets"))}

\* C26: every dataset identifier list_datasets reports, under any category,
\* is accepted by load_dataset, which answers it with a success payload and
\* not with the not-found error.
C26_ListedDatasetsCanBeLoaded ==
    (/\ Answered
     /\ Name = "load_dataset"
     /\ Supplied("dataset_name")
     /\ Args.p["dataset_name"].s \in AllListedDatasets) => ~caught

\* The metrics, methods and model types the list tools report for all.
ListedMetrics ==
    UNION {{entry.metrics[i].metric : i \in DOMAIN entry.metrics} :
              entry \in Range(FullCatalog("list_metrics"))}

ListedMethods == {entry.method : entry \in Range(FullCatalog("list_explainers"))}

ListedModelTypes == {entry.type : entry \in Range(FullCatalog("list_models"))}

\* C27: the listing tools and the acting tools agree on their identifiers:
\* evaluate_explanation accepts a metric exactly when list_metrics('all')
\* reports it, generate_explanation a method exactly when
\* list_explainers('all') reports it, and load_model a model type exactly
\* when list_models('all') reports it.
C27_ListedIsAccepted ==
    /\ (Answered /\ Name = "evaluate_explanation" /\ Supplied("metric") /\ ModelInfoGiven)
          => (~caught <=> Args.p["metric"].s \in ListedMetrics)
    /\ (Answered /\ Name = "generate_explanation" /\ Supplied("method") /\ ModelInfoGiven)
          => (~caught <=> Args.p["method"].s \in ListedMethods)
    /\ (Answered /\ Name = "load_model" /\ Supplied("ml_model"))
          => (~caught <=> Args.p["ml_model"].s \in ListedModelTypes)

====
